---- MODULE Spec2Model ----
(***************************************************************************)
(* judge-controller: the worker that takes submission identifiers from an  *)
(* AMQP queue, fetches the submission and its problem's grading resources  *)
(* from the judge server, keeps an on-disk bundle per problem, runs the    *)
(* grading subprocess and reports the verdict.                             *)
(*                                                                         *)
(* Two specifications share the variables:                                 *)
(*   SpecSession  the Session object alone (login, refresh,                *)
(*                get_access_token) under a clock with second-level steps  *)
(*   Spec         the queue consumer of main() driving process_submission  *)
(*                step by step, with the disk, the server and the          *)
(*                subprocess as environment                                *)
(***************************************************************************)
EXTENDS Integers, Sequences, FiniteSets, TLC

VARIABLES
    now,        \* Utc::now(), in seconds
    session,    \* the Session struct of the current run
    tokRet,     \* what the last get_access_token call did and handed out
    pc,         \* where the worker process stands in main / process_submission
    queue,      \* JUDGE_QUEUE: the deliveries the broker still holds, in order
    delivery,   \* the delivery handed to the consumer and not yet acknowledged
    acked,      \* the submission ids whose delivery was acknowledged
    run,        \* number of process_submission calls started so far
    submission, \* the PartialSubmission fetched in this run
    problem,    \* the ProblemMetadata fetched in this run
    should_download, \* the staleness decision of this run
    args,       \* the argument vector handed to the subprocess
    verdict,    \* the JudgeOutput parsed in this run
    server,     \* the judge server's record of the problem
    bundle,     \* the resource folder of the problem on disk
    temp,       \* the files of the temp folder
    child,      \* the grading subprocess
    reported,   \* per submission id, the verdicts PUT to submission/{id}/judge
    fetched,    \* the resources requested from the server in this run
    failures,   \* how the failures that occurred in this run were handled
    faults,     \* number of failures the environment has caused so far
    opts,       \* the command line options (Opts) the behaviour depends on
    relay,      \* the progress relay of this run
    events,     \* the progress events published and not yet late by the relay
    emitted,    \* number of testcase events the subprocess has published
    progress,   \* the progress PUTs sent and still on their way
    late,       \* a progress PUT reached the server after its run's final verdict
    entry,      \* the name of the archive entry unzip is at
    target,     \* what unzip did for the entry, and at which path
    marker_for  \* history: the last_update known to the run that wrote the marker

sessVars == <<now, session, tokRet>>

memVars == <<submission, problem, should_download, args, verdict>>

queueVars == <<queue, delivery, acked>>

diskVars == <<bundle, temp>>

relayVars == <<relay, events, emitted, progress, late>>

zipVars == <<entry, target>>

pipeVars == <<pc, queueVars, run, memVars, server, diskVars, child, reported,
              fetched, failures, faults, opts, relayVars, zipVars, marker_for>>

vars == <<sessVars, pipeVars>>

(***************************************************************************)
(* Bounds of the model.                                                    *)
(***************************************************************************)
T0 == 1000                \* the clock's value in the initial state

\* The instants (seconds after T0) at which SpecSession observes the clock.
ClockPoints == {0, 200, 300, 596, 600, 900}

\* Lifetimes (seconds) of the access tokens the server issues: in SpecSession a
\* short-lived and a ten-minute token, in Spec the ten-minute token alone.
SessionLifetimes == {200, 600}

PipelineLifetimes == {600}

(***************************************************************************)
(* Session (src/src/session.rs; controller.rs carries the same code).      *)
(***************************************************************************)
FiveMinutes == 300

\* An access token is a JWT: the model keeps its `exp` claim and who issued it.
NoToken == [exp |-> 0, iss |-> "none"]

\* The server's answer to auth/login and auth/refresh: a JWTTokenPair.
LoginResponse(t, life) ==
    [access_token |-> [exp |-> t + life, iss |-> "login"], refresh_token |-> "rt_login"]

RefreshResponse(t, life) ==
    [access_token |-> [exp |-> t + life, iss |-> "refresh"], refresh_token |-> "rt_rotated"]

\* Session::new
NewSession ==
    [base_url |-> "server", expiry |-> 0, access_token |-> NoToken, refresh_token |-> ""]

\* Session::recalc_expiry: expiry = Utc.timestamp(claims.exp, 0)
recalc_expiry(s) == [s EXCEPT !.expiry = s.access_token.exp]

\* Session::init, after the login response has arrived
init(s, resp) ==
    recalc_expiry([s EXCEPT !.access_token = resp.access_token,
                            !.refresh_token = resp.refresh_token])

\* a refresh that stores the refresh token of the response as well
refresh_Rotating(s, resp) ==
    recalc_expiry([s EXCEPT !.access_token = resp.access_token,
                            !.refresh_token = resp.refresh_token])

\* Session::refresh, after the refresh response has arrived
refresh(s, resp) ==
    recalc_expiry([s EXCEPT !.access_token = resp.access_token])

\* get_access_token with the five-minute margin forgotten
NeedsRefresh_NoMargin(s, t) == t > s.expiry

\* get_access_token refreshing already when exactly five minutes remain
NeedsRefresh_Inclusive(s, t) == t + FiveMinutes >= s.expiry

\* The condition of get_access_token: Utc::now() + Duration::minutes(5) > self.expiry
NeedsRefresh(s, t) == t + FiveMinutes > s.expiry

\* No call of get_access_token yet.
NoCall == [kind |-> "none"]

\* get_access_token at time t on session s: the sessions it can leave behind and
\* what it reports. A refresh whose HTTP call or decoding fails panics (unwrap).
GetAccessTokenOutcomes(s, t, lifetimes) ==
    IF NeedsRefresh(s, t)
    THEN { [session |-> refresh(s, RefreshResponse(t, life)),
            ret |-> [kind |-> "ok", at |-> t, posts |-> 1, presented |-> s.refresh_token,
                     priorExpiry |-> s.expiry, priorIss |-> s.access_token.iss,
                     token |-> RefreshResponse(t, life).access_token,
                     expiry |-> refresh(s, RefreshResponse(t, life)).expiry]]
           : life \in lifetimes }
         \cup
         { [session |-> s,
            ret |-> [kind |-> "panic", at |-> t, posts |-> 1, presented |-> s.refresh_token,
                     priorExpiry |-> s.expiry, priorIss |-> s.access_token.iss,
                     token |-> NoToken, expiry |-> s.expiry]] }
    ELSE { [session |-> s,
            ret |-> [kind |-> "ok", at |-> t, posts |-> 0, presented |-> "",
                     priorExpiry |-> s.expiry, priorIss |-> s.access_token.iss,
                     token |-> s.access_token, expiry |-> s.expiry]] }

(***************************************************************************)
(* The data of the pipeline.                                               *)
(***************************************************************************)
MaxRuns == 2              \* process_submission is started at most MaxRuns times
MaxFaults == 1            \* the environment causes at most MaxFaults failures
TestcaseCount == 2        \* number of testcases of the problem

\* The submission ids the queue delivers; all are submissions to one problem.
SubmissionIds == {1, 2}

Slug == "sum-two"

ProblemTypes == {"normal", "interactive"}

\* The instants (seconds after T0) at which Spec observes the clock.
PipelinePoints == {0, 600}

\* The last_update stamps the server can hold for the problem.
ServerStamps == {T0 - 100, T0 + 600}

\* chrono's to_rfc3339 and DateTime::from_str: the text of an instant and back.
\* A file that does not hold such a text does not parse.
ToRfc3339(t) == [kind |-> "rfc3339", t |-> t]

ParseOk(str) == str.kind = "rfc3339"

ParseDateTime(str) == str.t

NoText == [kind |-> "absent"]

EmptyText == [kind |-> "empty"]

\* A file on disk: the run that wrote it (0: there is no such file) and whether
\* its content is complete.
NoFile == [by |-> 0, whole |-> FALSE]

WholeFile(r) == [by |-> r, whole |-> TRUE]

PartFile(r) == [by |-> r, whole |-> FALSE]

Exists(f) == f.by > 0

\* The files of the resource folder besides the marker last-update-time.txt.
BundleFiles == {"metadata.yml", "checker.cpp", "interactor.cpp", "testcases"}

NoBundle ==
    [exists |-> FALSE, marker |-> NoText, files |-> [f \in BundleFiles |-> NoFile]]

\* The temp folder: source, verdict.json, testlib.h and testcases.zip.
NoSource == [id |-> 0, whole |-> FALSE]

NoVerdictFile == [by |-> 0, id |-> 0, valid |-> FALSE]

EmptyTemp ==
    [source |-> NoSource, verdict |-> NoVerdictFile, testlib |-> NoFile, zip |-> NoFile]

NoSubmission == [id |-> 0, problem_slug |-> "", language |-> "", source_code |-> 0]

NoProblem == [problem_type |-> "", last_update |-> NoText, testcases |-> 0]

NoVerdict == [verdict |-> "", by |-> 0, id |-> 0]

\* No progress relay is running.
NoRelay == [state |-> "off", count |-> 0, last_report |-> 0]

\* GET submission/{id}: the PartialSubmission the server answers with.
ServerSubmission(id) ==
    [id |-> id, problem_slug |-> Slug, language |-> "cpp17", source_code |-> id]

\* GET problem/{slug}: the ProblemMetadata the server answers with.
ServerProblem(srv) ==
    [problem_type |-> srv.problem_type, last_update |-> ToRfc3339(srv.last_update),
     testcases |-> TestcaseCount]

\* The pipeline stage of a program position (the stages of the design).
Stage(p) ==
    CASE p = "login" -> "Authenticating"
      [] p = "get_submission" -> "FetchingSubmission"
      [] p = "get_problem" -> "FetchingProblem"
      [] p \in {"write_source", "check_stale", "recreate", "write_marker", "dl_metadata",
                "dl_checker", "dl_testlib", "dl_interactor", "dl_testcases", "unzip",
                "remove_zip"} -> "ReconcilingCache"
      [] p \in {"spawn", "wait", "join", "collect"} -> "Judging"
      [] p = "report" -> "ReportingVerdict"
      [] p = "ack" -> "Done"
      [] OTHER -> "None"

(***************************************************************************)
(* main (src/src/main.rs) and process_submission (src/src/controller.rs).  *)
(***************************************************************************)

\* The state of a freshly started worker: nothing fetched, nothing on disk.
PipeInit ==
    /\ pc = "idle"
    /\ queue = <<1, 2>>
    /\ delivery = 0
    /\ acked = {}
    /\ run = 0
    /\ submission = NoSubmission
    /\ problem = NoProblem
    /\ should_download = FALSE
    /\ args = <<>>
    /\ verdict = NoVerdict
    /\ server \in [last_update : {T0 - 100}, problem_type : ProblemTypes]
    /\ bundle = NoBundle
    /\ temp = EmptyTemp
    /\ child = "none"
    /\ reported = [id \in SubmissionIds |-> <<>>]
    /\ fetched = {}
    /\ failures = {}
    /\ faults = 0
    /\ opts \in [socket : BOOLEAN]
    /\ relay = NoRelay
    /\ events = <<>>
    /\ emitted = 0
    /\ progress = {}
    /\ late = FALSE

\* No archive entry is being extracted.
NoEntry == <<>>

NoTarget == [kind |-> "none"]

Init ==
    /\ now = T0
    /\ session = NewSession
    /\ tokRet = NoCall
    /\ PipeInit
    /\ entry = NoEntry
    /\ target = NoTarget
    /\ marker_for = NoText

\* How the code treats each point of failure: unwrap/expect panics, `?` returns
\* an Err (which main unwraps), and two results are dropped.
Panics == {"login", "refresh", "get_submission", "get_problem", "send", "unzip_open",
           "spawn", "verdict_missing", "verdict_parse", "put_send", "put_response",
           "basic_ack"}

Errs == {"check_stale", "remove_dir_all", "create_dir_all", "write_marker", "file_write",
         "unzip_copy", "remove_file"}

Swallowed == {"write_source", "stream"}

Handling(why) ==
    IF why \in Panics THEN "panic" ELSE IF why \in Errs THEN "err" ELSE "swallowed"

\* The failures that follow from what is on disk; every other one is a failure
\* of the network, the file system or the operating system.
Consequences == {"check_stale", "unzip_open", "verdict_missing", "verdict_parse"}

Fails(why) ==
    /\ failures' = failures \cup {Handling(why)}
    /\ IF why \in Consequences
       THEN UNCHANGED faults
       ELSE faults < MaxFaults /\ faults' = faults + 1

\* A panic, or an Err that main unwraps: the worker process ends.
Crash(why) ==
    /\ pc' = "crashed"
    /\ Fails(why)

\* a consumer that takes the next delivery while the previous one awaits its
\* acknowledgment
Ready_BeforeAck(p) == p \in {"idle", "ack"}

\* The body of `for delivery in consumer` awaits process_submission and the
\* acknowledgment before the iterator is asked for the next delivery.
Ready(p) == p = "idle"

\* a consumer created with no_ack: the broker takes a delivery as acknowledged
\* when it hands it over
AckedOnDelivery_NoAck(a, d) == a \cup {d}

\* basic_consume(.., BasicConsumeOptions::default(), ..): no_ack is false, a
\* delivery handed over stays unacknowledged.
AckedOnDelivery(a, d) == a

\* for delivery in consumer: the next delivery is handed over and
\* process_submission starts with Session::new.
Consume ==
    /\ Ready(pc)
    /\ queue # <<>>
    /\ run < MaxRuns
    /\ delivery' = Head(queue)
    /\ queue' = Tail(queue)
    /\ run' = run + 1
    /\ pc' = "login"
    /\ session' = NewSession
    /\ tokRet' = NoCall
    /\ submission' = NoSubmission
    /\ problem' = NoProblem
    /\ should_download' = FALSE
    /\ args' = <<>>
    /\ verdict' = NoVerdict
    /\ fetched' = {}
    /\ failures' = {}
    /\ relay' = NoRelay
    /\ events' = <<>>
    /\ emitted' = 0
    /\ acked' = AckedOnDelivery(acked, Head(queue))
    /\ UNCHANGED <<now, server, diskVars, child, reported, faults, opts, zipVars,
                   marker_for, progress, late>>

\* session.init(username, password): POST auth/login, unwrap on every failure.
Login ==
    /\ pc = "login"
    /\ \/ /\ \E life \in PipelineLifetimes :
                session' = init(session, LoginResponse(now, life))
          /\ pc' = "get_submission"
          /\ UNCHANGED <<failures, faults>>
       \/ /\ Crash("login")
          /\ UNCHANGED session
    /\ UNCHANGED <<now, tokRet, queueVars, run, memVars, server, diskVars, child,
                   reported, fetched, opts, zipVars, marker_for, relayVars>>

\* GET submission/{id} with the bearer token.
GetSubmission ==
    /\ pc = "get_submission"
    /\ \E o \in GetAccessTokenOutcomes(session, now, PipelineLifetimes) :
          /\ session' = o.session
          /\ tokRet' = o.ret
          /\ \/ /\ o.ret.kind = "ok"
                /\ submission' = ServerSubmission(delivery)
                /\ pc' = "get_problem"
                /\ UNCHANGED <<failures, faults>>
             \/ /\ Crash(IF o.ret.kind = "ok" THEN "get_submission" ELSE "refresh")
                /\ UNCHANGED submission
    /\ UNCHANGED <<now, queueVars, run, problem, should_download, args, verdict, server,
                   diskVars, child, reported, fetched, opts, zipVars, marker_for,
                   relayVars>>

\* GET problem/{slug} with the bearer token.
GetProblem ==
    /\ pc = "get_problem"
    /\ \E o \in GetAccessTokenOutcomes(session, now, PipelineLifetimes) :
          /\ session' = o.session
          /\ tokRet' = o.ret
          /\ \/ /\ o.ret.kind = "ok"
                /\ problem' = ServerProblem(server)
                /\ pc' = "write_source"
                /\ UNCHANGED <<failures, faults>>
             \/ /\ Crash(IF o.ret.kind = "ok" THEN "get_problem" ELSE "refresh")
                /\ UNCHANGED problem
    /\ UNCHANGED <<now, queueVars, run, submission, should_download, args, verdict,
                   server, diskVars, child, reported, fetched, opts, zipVars, marker_for,
                   relayVars>>

\* std::fs::write(&source_path, &submission.source_code); the Result is dropped.
\* A failed write leaves the old file, or a truncated new one.
WriteSource ==
    /\ pc = "write_source"
    /\ \/ /\ temp' = [temp EXCEPT !.source = [id |-> submission.source_code, whole |-> TRUE]]
          /\ UNCHANGED <<failures, faults>>
       \/ /\ \E left \in {temp.source, [id |-> submission.source_code, whole |-> FALSE]} :
                temp' = [temp EXCEPT !.source = left]
          /\ Fails("write_source")
    /\ pc' = "check_stale"
    /\ UNCHANGED <<sessVars, queueVars, run, memVars, server, bundle, child, reported,
                   fetched, opts, zipVars, marker_for,
                   relayVars>>

\* should_download with the comparison turned into <=
ShouldDownload_Inclusive(b, last_update) ==
    IF ~b.exists THEN "stale"
    ELSE IF b.marker.kind = "absent" \/ ~ParseOk(b.marker) \/ ~ParseOk(last_update)
         THEN "error"
    ELSE IF ParseDateTime(b.marker) <= ParseDateTime(last_update) THEN "stale"
    ELSE "fresh"

\* let should_download = { ... }: "stale" is true, "fresh" is false, "error" is
\* the Err that `?` returns when the marker cannot be read or a stamp not parsed.
ShouldDownload(b, last_update) ==
    IF ~b.exists THEN "stale"
    ELSE IF b.marker.kind = "absent" \/ ~ParseOk(b.marker) \/ ~ParseOk(last_update)
         THEN "error"
    ELSE IF ParseDateTime(b.marker) < ParseDateTime(last_update) THEN "stale"
    ELSE "fresh"

CheckStale ==
    /\ pc = "check_stale"
    /\ LET d == ShouldDownload(bundle, problem.last_update) IN
          \/ /\ d = "stale"
             /\ should_download' = TRUE
             /\ pc' = "recreate"
             /\ UNCHANGED <<failures, faults>>
          \/ /\ d = "fresh"
             /\ should_download' = FALSE
             /\ pc' = "spawn"
             /\ UNCHANGED <<failures, faults>>
          \/ /\ d = "error"
             /\ Crash("check_stale")
             /\ UNCHANGED should_download
    /\ UNCHANGED <<sessVars, queueVars, run, submission, problem, args, verdict, server,
                   diskVars, child, reported, fetched, opts, zipVars, marker_for,
                   relayVars>>

\* create_dir_all alone, the folder's old content kept
Recreated_NoDelete(b) == [b EXCEPT !.exists = TRUE]

\* remove_dir_all when the folder exists, then create_dir_all: an empty folder.
Recreated(b) == [NoBundle EXCEPT !.exists = TRUE]

\* "Delete and recreate folder if exists". remove_dir_all failing leaves the
\* folder; create_dir_all failing leaves none.
\* a refresh that goes from the recreated folder straight to the downloads
AfterCreateDir_FetchFirst == "dl_metadata"

\* What follows create_dir_all in the refresh: the write of the marker.
AfterCreateDir == "write_marker"

RecreateFolder ==
    /\ pc = "recreate"
    /\ \/ /\ bundle' = Recreated(bundle)
          /\ pc' = AfterCreateDir
          /\ UNCHANGED <<failures, faults>>
       \/ /\ bundle.exists
          /\ Crash("remove_dir_all")
          /\ UNCHANGED bundle
       \/ /\ bundle' = NoBundle
          /\ Crash("create_dir_all")
    /\ UNCHANGED <<sessVars, queueVars, run, memVars, server, temp, child, reported,
                   fetched, opts, zipVars, marker_for,
                   relayVars>>

\* std::fs::write(last-update-time.txt, Utc::now().to_rfc3339())?
WriteMarker ==
    /\ pc = "write_marker"
    /\ \/ /\ bundle' = [bundle EXCEPT !.marker = ToRfc3339(now)]
          /\ marker_for' = problem.last_update
          /\ pc' = "dl_metadata"
          /\ UNCHANGED <<failures, faults>>
       \/ /\ \E left \in {NoText, EmptyText} : bundle' = [bundle EXCEPT !.marker = left]
          /\ Crash("write_marker")
          /\ UNCHANGED marker_for
    /\ UNCHANGED <<sessVars, queueVars, run, memVars, server, temp, child, reported,
                   fetched, opts, zipVars,
                   relayVars>>

\* Where download_to_file puts a resource: the bundle or the temp folder.
PutBundle(b, res, f) == IF res \in BundleFiles THEN [b EXCEPT !.files[res] = f] ELSE b

PutTemp(t, res, f) ==
    IF res = "testlib.h" THEN [t EXCEPT !.testlib = f]
    ELSE IF res = "testcases.zip" THEN [t EXCEPT !.zip = f]
    ELSE t

\* download_to_file(client, url, path, session.get_access_token().await).await?
\*   send().await.unwrap()     a transport failure panics, the file untouched
\*   while let Some(Ok(item))  a stream error ends the loop: the file is cut
\*                             short and Ok(()) is returned all the same
\*   file.write(&item)?        a write failure returns Err, the file cut short
Download(step, res, next) ==
    /\ pc = step
    /\ \E o \in GetAccessTokenOutcomes(session, now, PipelineLifetimes) :
          /\ session' = o.session
          /\ tokRet' = o.ret
          /\ \/ /\ o.ret.kind = "panic"
                /\ Crash("refresh")
                /\ UNCHANGED <<diskVars, fetched>>
             \/ /\ o.ret.kind = "ok"
                /\ fetched' = fetched \cup {res}
                /\ \/ /\ bundle' = PutBundle(bundle, res, WholeFile(run))
                      /\ temp' = PutTemp(temp, res, WholeFile(run))
                      /\ pc' = next
                      /\ UNCHANGED <<failures, faults>>
                   \/ /\ bundle' = PutBundle(bundle, res, PartFile(run))
                      /\ temp' = PutTemp(temp, res, PartFile(run))
                      /\ pc' = next
                      /\ Fails("stream")
                   \/ /\ Crash("send")
                      /\ UNCHANGED diskVars
                   \/ /\ bundle' = PutBundle(bundle, res, PartFile(run))
                      /\ temp' = PutTemp(temp, res, PartFile(run))
                      /\ Crash("file_write")
    /\ UNCHANGED <<now, queueVars, run, memVars, server, child, reported, opts, zipVars, marker_for, relayVars>>

is_problem_interactive == problem.problem_type = "interactive"

DownloadMetadata == Download("dl_metadata", "metadata.yml", "dl_checker")

DownloadChecker == Download("dl_checker", "checker.cpp", "dl_testlib")

DownloadTestlib ==
    Download("dl_testlib", "testlib.h",
             IF is_problem_interactive THEN "dl_interactor" ELSE "dl_testcases")

DownloadInteractor == Download("dl_interactor", "interactor.cpp", "dl_testcases")

DownloadTestcases == Download("dl_testcases", "testcases.zip", "unzip")

\* unzip(&testcases_zip_path, &testcases_path).await?
\*   ZipArchive::new(zip_file).unwrap()  panics on an archive cut short
\*   std::io::copy(..)?                  an entry that cannot be written is an Err
Unzip ==
    /\ pc = "unzip"
    /\ \/ /\ temp.zip.whole
          /\ bundle' = [bundle EXCEPT !.files["testcases"] = WholeFile(run)]
          /\ pc' = "remove_zip"
          /\ UNCHANGED <<failures, faults>>
       \/ /\ temp.zip.whole
          /\ bundle' = [bundle EXCEPT !.files["testcases"] = PartFile(run)]
          /\ Crash("unzip_copy")
       \/ /\ ~temp.zip.whole
          /\ Crash("unzip_open")
          /\ UNCHANGED bundle
    /\ UNCHANGED <<sessVars, queueVars, run, memVars, server, temp, child, reported,
                   fetched, opts, zipVars, marker_for,
                   relayVars>>

\* std::fs::remove_file(&testcases_zip_path)?
RemoveZip ==
    /\ pc = "remove_zip"
    /\ \/ /\ temp' = [temp EXCEPT !.zip = NoFile]
          /\ pc' = "spawn"
          /\ UNCHANGED <<failures, faults>>
       \/ /\ Crash("remove_file")
          /\ UNCHANGED temp
    /\ UNCHANGED <<sessVars, queueVars, run, memVars, server, bundle, child, reported,
                   fetched, opts, zipVars, marker_for,
                   relayVars>>

\* let mut args: Vec<&str> = vec![..]; the interactor is pushed for an
\* interactive problem.
BuildArgs(sub, interactive) ==
    <<"--metadata", "metadata.yml", "--language", sub.language, "--source", "source",
      "--checker", "checker.cpp", "--testcases", "testcases", "--testlib", "testlib.h",
      "--sandboxes", "sandboxes", "--languages-definition", "language_definition",
      "--verdict", "verdict.json", "--verdict-format", "json", "-vvv">>
    \o (IF interactive THEN <<"--interactor", "interactor.cpp">> ELSE <<>>)

\* The progress relay (its code is not among the sources; modelled from the
\* design): it exists when --socket is given, is started right before the
\* subprocess and listens from then on.
StartRelay(o, t) ==
    IF o.socket THEN [state |-> "listening", count |-> 0, last_report |-> t] ELSE NoRelay

\* Command::new(&opts.judge).args(&args)...spawn().unwrap()
Spawn ==
    /\ pc = "spawn"
    /\ args' = BuildArgs(submission, is_problem_interactive)
    /\ \/ /\ child' = "running"
          /\ relay' = StartRelay(opts, now)
          /\ pc' = "wait"
          /\ UNCHANGED <<failures, faults>>
       \/ /\ Crash("spawn")
          /\ UNCHANGED <<child, relay>>
    /\ UNCHANGED <<sessVars, queueVars, run, submission, problem, should_download,
                   verdict, server, diskVars, reported, fetched, opts, zipVars, marker_for, events, emitted,
                   progress, late>>

\* The subprocess has judged one more testcase and publishes a testcase event.
ChildTestcase ==
    /\ child = "running"
    /\ opts.socket
    /\ emitted < TestcaseCount
    /\ emitted' = emitted + 1
    /\ events' = Append(events, "testcase")
    /\ UNCHANGED <<sessVars, pc, queueVars, run, memVars, server, diskVars, child,
                   reported, fetched, failures, faults, opts, zipVars, marker_for, relay, progress, late>>

\* The subprocess grades the file at the source path and ends: having written a
\* verdict (one that parses or one that does not) and published the closing
\* submission event, or having written and published nothing.
ChildExit ==
    /\ child = "running"
    /\ child' = "exited"
    /\ \/ /\ \E valid \in BOOLEAN :
                temp' = [temp EXCEPT !.verdict =
                            [by |-> run, id |-> temp.source.id, valid |-> valid]]
          /\ events' = IF opts.socket THEN Append(events, "submission") ELSE events
       \/ UNCHANGED <<temp, events>>
    /\ UNCHANGED <<sessVars, pc, queueVars, run, memVars, server, bundle, reported,
                   fetched, failures, faults, opts, zipVars, marker_for, relay, emitted, progress, late>>

\* child.wait()? returns once the subprocess has ended.
Wait ==
    /\ pc = "wait"
    /\ child = "exited"
    /\ child' = "none"
    /\ pc' = IF relay.state = "off" THEN "collect" ELSE "join"
    /\ UNCHANGED <<sessVars, queueVars, run, memVars, server, diskVars, reported,
                   fetched, failures, faults, opts, zipVars, marker_for, relayVars>>

\* The relay takes the next event. A testcase event counts; below the total and
\* a second or more after the previous report it sends a progress PUT without
\* waiting for it. The submission event ends the relay.
OneSecond == 1

\* a relay that goes on listening after the submission event
OnSubmission_KeepListening(r) == r

\* On a submission event: the relay terminates.
OnSubmission(r) == [r EXCEPT !.state = "terminated"]

RelayReceive ==
    /\ pc # "crashed"
    /\ relay.state = "listening"
    /\ events # <<>>
    /\ events' = Tail(events)
    /\ IF Head(events) = "submission"
       THEN /\ relay' = OnSubmission(relay)
            /\ UNCHANGED progress
       ELSE LET n == relay.count + 1 IN
            IF n < problem.testcases /\ now - relay.last_report >= OneSecond
            THEN /\ relay' = [relay EXCEPT !.count = n, !.last_report = now]
                 /\ progress' = progress \cup {[run |-> run, progress |-> n]}
            ELSE /\ relay' = [relay EXCEPT !.count = n]
                 /\ UNCHANGED progress
    /\ UNCHANGED <<sessVars, pc, queueVars, run, memVars, server, diskVars, child,
                   reported, fetched, failures, faults, opts, zipVars, marker_for, emitted, late>>

\* Whether the final verdict of run r has reached the server.
FinalReported(r) ==
    \E id \in SubmissionIds : \E i \in 1..Len(reported[id]) : reported[id][i].run = r

\* A progress PUT on its way reaches the server, or is lost (nothing retries it).
ProgressPut ==
    /\ pc # "crashed"
    /\ \E m \in progress :
          /\ progress' = progress \ {m}
          /\ \/ /\ late' = (late \/ FinalReported(m.run))
                /\ UNCHANGED faults
             \/ /\ faults < MaxFaults
                /\ faults' = faults + 1
                /\ UNCHANGED late
    /\ UNCHANGED <<sessVars, pc, queueVars, run, memVars, server, diskVars, child,
                   reported, fetched, failures, opts, zipVars, marker_for, relay, events, emitted>>

\* The pipeline joins the relay: it goes on once the relay has ended, and the
\* relay and what it had not read are gone.
JoinRelay ==
    /\ pc = "join"
    /\ relay.state = "terminated"
    /\ pc' = "collect"
    /\ relay' = NoRelay
    /\ events' = <<>>
    /\ emitted' = 0
    /\ UNCHANGED <<sessVars, queueVars, run, memVars, server, diskVars, child, reported,
                   fetched, failures, faults, opts, zipVars, marker_for, progress, late>>

\* serde_json::from_str(&std::fs::read_to_string(verdict_path).unwrap()).unwrap()
ReadVerdict(f) ==
    IF ~Exists(f) THEN [kind |-> "panic", why |-> "verdict_missing", out |-> NoVerdict]
    ELSE IF ~f.valid THEN [kind |-> "panic", why |-> "verdict_parse", out |-> NoVerdict]
    ELSE [kind |-> "ok", why |-> "", out |-> [verdict |-> "AC", by |-> f.by, id |-> f.id]]

CollectVerdict ==
    /\ pc = "collect"
    /\ LET r == ReadVerdict(temp.verdict) IN
          \/ /\ r.kind = "ok"
             /\ verdict' = r.out
             /\ pc' = "report"
             /\ UNCHANGED <<failures, faults>>
          \/ /\ r.kind = "panic"
             /\ Crash(r.why)
             /\ UNCHANGED verdict
    /\ UNCHANGED <<sessVars, queueVars, run, submission, problem, should_download, args,
                   server, diskVars, child, reported, fetched, opts, zipVars, marker_for,
                   relayVars>>

\* PUT submission/{id}/judge with the verdict; send() and text() are unwrapped:
\* the request can fail before it reaches the server, or the answer be lost
\* after it did.
PutJudge(r, v) == [run |-> r, verdict |-> v]

ReportVerdict ==
    /\ pc = "report"
    /\ \E o \in GetAccessTokenOutcomes(session, now, PipelineLifetimes) :
          /\ session' = o.session
          /\ tokRet' = o.ret
          /\ \/ /\ o.ret.kind = "ok"
                /\ reported' = [reported EXCEPT ![delivery] = Append(@, PutJudge(run, verdict))]
                /\ pc' = "ack"
                /\ UNCHANGED <<failures, faults>>
             \/ /\ o.ret.kind = "ok"
                /\ reported' = [reported EXCEPT ![delivery] = Append(@, PutJudge(run, verdict))]
                /\ Crash("put_response")
             \/ /\ Crash(IF o.ret.kind = "ok" THEN "put_send" ELSE "refresh")
                /\ UNCHANGED reported
    /\ UNCHANGED <<now, queueVars, run, memVars, server, diskVars, child, fetched, opts, zipVars, marker_for,
                   relayVars>>

\* process_submission returned Ok(()): channel.basic_ack(..).expect(..)
Ack ==
    /\ pc = "ack"
    /\ \/ /\ acked' = acked \cup {delivery}
          /\ delivery' = 0
          /\ pc' = "idle"
          /\ UNCHANGED <<failures, faults>>
       \/ /\ Crash("basic_ack")
          /\ UNCHANGED <<delivery, acked>>
    /\ UNCHANGED <<sessVars, queue, run, memVars, server, diskVars, child, reported,
                   fetched, opts, zipVars, marker_for,
                   relayVars>>

\* The worker is started again after it ended: main connects and consumes anew,
\* and the broker hands out the unacknowledged delivery once more. The disk is
\* as the ended process left it.
Restart ==
    /\ pc = "crashed"
    /\ pc' = "idle"
    /\ queue' = IF delivery = 0 THEN queue ELSE <<delivery>> \o queue
    /\ delivery' = 0
    /\ session' = NewSession
    /\ tokRet' = NoCall
    /\ submission' = NoSubmission
    /\ problem' = NoProblem
    /\ should_download' = FALSE
    /\ args' = <<>>
    /\ verdict' = NoVerdict
    /\ fetched' = {}
    /\ failures' = {}
    /\ relay' = NoRelay
    /\ events' = <<>>
    /\ emitted' = 0
    /\ progress' = {}
    /\ UNCHANGED <<now, acked, run, server, diskVars, child, reported, faults, opts, zipVars, marker_for,
                   late>>

\* The problem is edited on the server: a later last_update, any type. A run
\* reads the server's record once, in GetProblem, so an edit during a run acts
\* like one right after it; the edits are taken between runs.
ServerUpdate ==
    /\ pc = "idle"
    /\ \E lu \in ServerStamps, ty \in ProblemTypes :
          /\ lu > server.last_update
          /\ server' = [last_update |-> lu, problem_type |-> ty]
    /\ UNCHANGED <<sessVars, pc, queueVars, run, memVars, diskVars, child, reported,
                   fetched, failures, faults, opts, zipVars, marker_for, relayVars>>

\* time passes
Tick ==
    /\ \E p \in PipelinePoints :
          /\ T0 + p > now
          /\ now' = T0 + p
    /\ UNCHANGED <<session, tokRet, pipeVars>>

Next ==
    \/ Consume \/ Login \/ GetSubmission \/ GetProblem \/ WriteSource \/ CheckStale
    \/ RecreateFolder \/ WriteMarker
    \/ DownloadMetadata \/ DownloadChecker \/ DownloadTestlib \/ DownloadInteractor
    \/ DownloadTestcases \/ Unzip \/ RemoveZip
    \/ Spawn \/ ChildTestcase \/ ChildExit \/ Wait \/ RelayReceive \/ ProgressPut
    \/ JoinRelay \/ CollectVerdict \/ ReportVerdict \/ Ack
    \/ Restart \/ ServerUpdate \/ Tick

Spec == Init /\ [][Next]_vars

(***************************************************************************)
(* SpecSession: the Session object driven by arbitrary calls.              *)
(***************************************************************************)
SessInit == Init

\* session.init(username, password) succeeds
SessLogin ==
    /\ \E life \in SessionLifetimes : session' = init(session, LoginResponse(now, life))
    /\ tokRet' = NoCall
    /\ UNCHANGED <<now, pipeVars>>

\* session.refresh() called directly and succeeding
SessRefresh ==
    /\ session.refresh_token # ""
    /\ \E life \in SessionLifetimes : session' = refresh(session, RefreshResponse(now, life))
    /\ tokRet' = NoCall
    /\ UNCHANGED <<now, pipeVars>>

\* session.get_access_token()
SessGetAccessToken ==
    /\ session.refresh_token # ""
    /\ \E o \in GetAccessTokenOutcomes(session, now, SessionLifetimes) :
          /\ session' = o.session
          /\ tokRet' = o.ret
    /\ UNCHANGED <<now, pipeVars>>

\* time passes
SessTick ==
    /\ \E p \in ClockPoints :
          /\ T0 + p > now
          /\ now' = T0 + p
    /\ UNCHANGED <<session, tokRet, pipeVars>>

SessNext == SessLogin \/ SessRefresh \/ SessGetAccessToken \/ SessTick

SpecSession == SessInit /\ [][SessNext]_vars

(***************************************************************************)
(* SpecUnzip: unzip (src/src/util.rs; controller.rs carries the same code) *)
(* on one archive entry of any name. A name is a sequence of characters; a *)
(* path is whether it starts at the root, and its components.              *)
(***************************************************************************)
MaxNameLen == 5           \* archive entry names have at most MaxNameLen characters

\* The characters of entry names: both separators, the dot, a letter and NUL.
NameChars == {"/", "\\", ".", "a", "NUL"}

EntryNames == UNION { [1..n -> NameChars] : n \in 0..MaxNameLen }

\* file_name_sanitized of the zip crate, step 1: the name up to its first NUL.
RECURSIVE UpToNul(_)
UpToNul(str) ==
    IF str = <<>> \/ Head(str) = "NUL" THEN <<>> ELSE <<Head(str)>> \o UpToNul(Tail(str))

\* step 2: the separator that is not the platform's (MAIN_SEPARATOR is '/')
\* is replaced by it.
ToMainSeparator(str) == [i \in 1..Len(str) |-> IF str[i] = "\\" THEN "/" ELSE str[i]]

\* Path::components: the runs of characters between separators.
RECURSIVE Runs(_, _)
Runs(str, cur) ==
    IF str = <<>> THEN (IF cur = <<>> THEN <<>> ELSE <<cur>>)
    ELSE IF Head(str) = "/"
         THEN (IF cur = <<>> THEN <<>> ELSE <<cur>>) \o Runs(Tail(str), <<>>)
    ELSE Runs(Tail(str), Append(cur, Head(str)))

\* Path::new(&filename)
PathNew(str) == [root |-> (str # <<>> /\ Head(str) = "/"), comps |-> Runs(str, <<>>)]

\* Component::Normal: neither `.` nor `..` (the root is kept in the root flag).
IsNormal(c) == c # <<".">> /\ c # <<".", ".">>

\* the entry name taken as a path as it stands
sanitized_name_Raw(name) == PathNew(ToMainSeparator(name))

\* file.sanitized_name(): the Normal components of the name, as a relative path.
sanitized_name(name) ==
    [root |-> FALSE, comps |-> SelectSeq(PathNew(ToMainSeparator(UpToNul(name))).comps, IsNormal)]

\* Path::join: an absolute path replaces the base.
join(base, path) ==
    IF path.root THEN path ELSE [root |-> base.root, comps |-> base.comps \o path.comps]

\* filename.ends_with("/"): Path::ends_with compares components, and the only
\* component of "/" is the root.
ends_with_root(path) == path.root /\ path.comps = <<>>

\* folder_path: the testcases directory of the bundle.
TestcasesPath == [root |-> TRUE, comps |-> << <<"d">> >>]

\* Where the file system takes a path to: `..` steps up (the root is its own
\* parent), `.` stays.
RECURSIVE Resolve(_, _)
Resolve(comps, at) ==
    IF comps = <<>> THEN at
    ELSE IF Head(comps) = <<".", ".">>
         THEN Resolve(Tail(comps), IF at = <<>> THEN <<>> ELSE SubSeq(at, 1, Len(at) - 1))
    ELSE IF Head(comps) = <<".">> THEN Resolve(Tail(comps), at)
    ELSE Resolve(Tail(comps), Append(at, Head(comps)))

\* The body of the loop of unzip for one entry: a directory is created, or a
\* file (and its missing parents, which lie between the folder and the file);
\* File::create(..).unwrap() on the folder itself panics.
UnzipEntry(name) ==
    LET filename == sanitized_name(name)
        path == join(TestcasesPath, filename)
    IN  IF ends_with_root(filename) THEN [kind |-> "dir", path |-> path]
        ELSE IF Resolve(path.comps, <<>>) = Resolve(TestcasesPath.comps, <<>>)
             THEN [kind |-> "panic", path |-> path]
        ELSE [kind |-> "file", path |-> path]

UnzipInit ==
    /\ now = T0
    /\ session = NewSession
    /\ tokRet = NoCall
    /\ PipeInit
    /\ entry \in EntryNames
    /\ target = NoTarget
    /\ marker_for = NoText

\* unzip reaches the entry
UnzipStep ==
    /\ target = NoTarget
    /\ target' = UnzipEntry(entry)
    /\ UNCHANGED <<sessVars, pc, queueVars, run, memVars, server, diskVars, child,
                   reported, fetched, failures, faults, opts, relayVars, entry,
                   marker_for>>

UnzipNext == UnzipStep

SpecUnzip == UnzipInit /\ [][UnzipNext]_vars

(***************************************************************************)
(* Claims about the session.                                               *)
(***************************************************************************)

\* C2, as stated: every token get_access_token hands out has more than five
\* minutes left at the time of the call (now + 5 min < expiry), whether or not a
\* refresh was performed.
C2_TokenHasMoreThanFiveMinutes ==
    tokRet.kind = "ok" => tokRet.at + FiveMinutes < tokRet.expiry

\* C2, amended: a token handed out without a refresh has at least five minutes
\* left (now + 5 min <= expiry, the boundary included); a token with less is
\* returned only after a refresh, and what is returned then is the token of the
\* refresh response with the expiry its exp claim states, unchecked.
C2_UnrefreshedTokenHasFiveMinutes ==
    tokRet.kind = "ok" =>
        /\ tokRet.posts = 0 => tokRet.at + FiveMinutes <= tokRet.expiry
        /\ tokRet.posts = 1 => /\ tokRet.token.iss = "refresh"
                               /\ tokRet.expiry = tokRet.token.exp

\* C2 witness: a token returned without refresh with exactly five minutes left.
C2_Witness_Boundary ==
    /\ tokRet.kind = "ok"
    /\ tokRet.posts = 0
    /\ tokRet.at + FiveMinutes = tokRet.expiry

\* C3: a call of get_access_token posts auth/refresh exactly once if less than
\* five minutes remain until the recorded expiry, and otherwise posts nothing and
\* leaves the session as it was; with an expiry of T+600 a call at T+200 does
\* not refresh and a call at T+596 does.
C3_RefreshIffWithinFiveMinutes ==
    [][ (tokRet' # tokRet /\ tokRet'.kind # "none") =>
          /\ tokRet'.at = now
          /\ tokRet'.posts = (IF session.expiry - now < FiveMinutes THEN 1 ELSE 0)
          /\ tokRet'.posts = 0 => session' = session
          /\ session.expiry = now + 400 => tokRet'.posts = 0
          /\ session.expiry = now + 4 => tokRet'.posts = 1 ]_vars

\* C3 witness: with a token expiring at T+600, the call at T+596 has refreshed.
C3_Witness_RefreshAt596 ==
    /\ tokRet.kind = "ok"
    /\ tokRet.priorExpiry = tokRet.at + 4
    /\ tokRet.at = T0 + 596
    /\ tokRet.posts = 1

(***************************************************************************)
(* Claims about the pipeline.                                              *)
(***************************************************************************)

\* The synthetic verdict of the design: SYSTEM_ERROR, written by no subprocess.
SystemErrorVerdict == [verdict |-> "SYSTEM_ERROR", by |-> 0, id |-> 0]

\* C1: when the verdict file is absent after the subprocess has exited, the run
\* does not fail there: it goes on to report, and what it is about to report is
\* the synthetic SYSTEM_ERROR verdict.
C1_MissingVerdictReportsSystemError ==
    [][ (pc = "collect" /\ ~Exists(temp.verdict) /\ pc' # pc) =>
          (pc' = "report" /\ verdict' = SystemErrorVerdict) ]_vars

\* The staleness rule as the design words it.
StaleByDesign(b, last_update) ==
    \/ ~b.exists
    \/ b.marker.kind = "absent"
    \/ /\ b.marker.kind = "rfc3339"
       /\ b.marker.t < last_update.t

\* C4: the staleness decision says "stale", and the refresh begins, exactly when
\* the folder does not exist, or its marker is missing, or the marker is earlier
\* than the server's last_update.
C4_StaleIffMissingOrOlder ==
    [][ (pc = "check_stale" /\ pc' # pc) =>
          (StaleByDesign(bundle, problem.last_update)
             <=> (pc' = "recreate" /\ should_download')) ]_vars

\* The bundle is there and its marker is not earlier than the server's last_update.
FreshOnDisk ==
    /\ bundle.exists
    /\ bundle.marker.kind = "rfc3339"
    /\ bundle.marker.t >= problem.last_update.t

\* C5: when the folder exists and the marker is not earlier than the server's
\* last_update, the decision is "not stale" and the run goes straight on to
\* launching the subprocess: no resource has been or is requested, and the
\* folder, its marker and the temp files are left as they were.
C5_FreshBundleNoFetch ==
    [][ (pc = "check_stale" /\ FreshOnDisk /\ pc' # pc) =>
          /\ pc' = "spawn"
          /\ should_download' = FALSE
          /\ fetched = {} /\ fetched' = {}
          /\ bundle' = bundle
          /\ temp' = temp ]_vars

\* C5 witness: a run stands before the launch with a bundle it judged fresh, the
\* marker being exactly the server's last_update, and has fetched nothing.
C5_Witness_FreshAtLaunch ==
    /\ pc = "spawn"
    /\ ~should_download
    /\ FreshOnDisk
    /\ bundle.marker.t = problem.last_update.t
    /\ fetched = {}

\* The positions of a run between the recreation of the folder and its end.
AfterRecreate ==
    {"write_marker", "dl_metadata", "dl_checker", "dl_testlib", "dl_interactor",
     "dl_testcases", "unzip", "remove_zip", "spawn", "wait", "join", "collect", "report",
     "ack"}

\* C6: once a refresh has recreated the folder, every file in it was written by
\* the run that refreshes; and in no state, a refresh that failed part-way
\* included, does the folder hold files written by two different runs.
C6_RefreshLeavesNoOldFile ==
    /\ (should_download /\ pc \in AfterRecreate) =>
          \A f \in BundleFiles : bundle.files[f].by \in {0, run}
    /\ \A f, g \in BundleFiles :
          (Exists(bundle.files[f]) /\ Exists(bundle.files[g])) =>
             bundle.files[f].by = bundle.files[g].by

\* C6 witness: after the first submission was processed and acknowledged, a
\* second run has refreshed the bundle and every file it holds is its own.
C6_Witness_SecondRefresh ==
    /\ acked = {1}
    /\ run = 2
    /\ should_download
    /\ pc = "spawn"
    /\ bundle.files["metadata.yml"] = WholeFile(2)
    /\ bundle.files["testcases"] = WholeFile(2)

\* C7: the final verdict of a submission is reported exactly once: never twice,
\* and once for every submission whose run has ended.
C7_ReportedExactlyOnce ==
    \A id \in SubmissionIds :
       /\ Len(reported[id]) <= 1
       /\ (id \in acked \/ (delivery = id /\ pc = "crashed")) => Len(reported[id]) = 1

\* C8: a run that ends in a failure has still delivered a verdict for its
\* submission.
C8_FailedRunStillReports ==
    (pc = "crashed" /\ delivery # 0) => reported[delivery] # <<>>

\* The stage that follows a stage.
NextStage(st) ==
    CASE st = "None" -> "Authenticating"
      [] st = "Authenticating" -> "FetchingSubmission"
      [] st = "FetchingSubmission" -> "FetchingProblem"
      [] st = "FetchingProblem" -> "ReconcilingCache"
      [] st = "ReconcilingCache" -> "Judging"
      [] st = "Judging" -> "ReportingVerdict"
      [] st = "ReportingVerdict" -> "Done"
      [] OTHER -> "None"

\* C9: a run goes through the stages in order, one at a time, and a failure in
\* a stage ends the run at once: the step that fails leaves the worker ended,
\* in no later position of the run.
C9_StagesInOrderAndFailFast ==
    [][ /\ Stage(pc') \in {Stage(pc), NextStage(Stage(pc)), "None"}
        /\ (failures' # failures /\ failures' # {}) => pc' = "crashed" ]_vars

HasFlag(a, f) == \E i \in 1..(Len(a) - 1) : a[i] = f

\* The flags the design lists as always present, each with its value.
AlwaysFlags ==
    {"--metadata", "--language", "--source", "--checker", "--testcases", "--testlib",
     "--sandboxes", "--checker-language", "--languages-definition", "--verdict",
     "--verdict-format"}

\* C12: the argument vector the subprocess was launched with holds the
\* interactor flag and path exactly for an interactive problem, the address of
\* the progress channel exactly when --socket was given, and always every other
\* flag of the design (the checker language among them) and the verbosity.
C12_ArgsContract ==
    args # <<>> =>
        /\ HasFlag(args, "--interactor") <=> problem.problem_type = "interactive"
        /\ HasFlag(args, "--socket") <=> opts.socket
        /\ \A f \in AlwaysFlags : HasFlag(args, f)
        /\ \E i \in 1..Len(args) : args[i] = "-vvv"

\* The resources a refresh downloads, and the file each one is written to.
Resources == {"metadata.yml", "checker.cpp", "testlib.h", "interactor.cpp", "testcases.zip"}

FileOf(b, t, res) ==
    IF res = "testlib.h" THEN t.testlib
    ELSE IF res = "testcases.zip" THEN t.zip
    ELSE b.files[res]

\* C13: a download that leaves its file cut short ends the run in that very
\* step, and the subprocess never runs while a file downloaded in its own run
\* is incomplete.
C13_PartialDownloadAbortsRun ==
    [][ /\ \A res \in Resources :
              (res \in fetched' \ fetched /\ ~FileOf(bundle', temp', res).whole)
                 => pc' = "crashed"
        /\ child' = "running" =>
              \A res \in fetched' : FileOf(bundle', temp', res).by = run'
                                        => FileOf(bundle', temp', res).whole ]_vars

\* C14: process_submission starts only when no delivery is held, no subprocess
\* and no relay is left from an earlier run, and every submission delivered
\* before, other than the one delivered now, has had its verdict reported and
\* its delivery acknowledged; a subprocess runs only inside the run that waits
\* for it.
C14_OneSubmissionAtATime ==
    [][ /\ run' # run =>
              /\ delivery = 0
              /\ child = "none"
              /\ relay.state = "off"
              /\ \A id \in SubmissionIds :
                    (id # delivery' /\ \A i \in 1..Len(queue') : queue'[i] # id)
                       => (id \in acked /\ reported[id] # <<>>)
        /\ child' = "running" => (pc' = "wait" /\ delivery' # 0) ]_vars

\* C14 witness: the second submission is being processed, the first one
\* reported and acknowledged.
C14_Witness_SecondAfterFirst ==
    /\ delivery = 2
    /\ child = "running"
    /\ acked = {1}
    /\ Len(reported[1]) = 1

\* Whether a path leads to a place below the testcases directory.
Inside(path) ==
    LET at == Resolve(path.comps, <<>>)
        base == Resolve(TestcasesPath.comps, <<>>)
    IN  /\ path.root
        /\ Len(at) > Len(base)
        /\ SubSeq(at, 1, Len(base)) = base

\* C15: whatever the name of the archive entry, the file or directory unzip
\* creates for it lies below the testcases directory, and the path it is
\* created at holds no `.` or `..` component.
C15_UnzipStaysInside ==
    target.kind \in {"file", "dir"} =>
        /\ Inside(target.path)
        /\ \A i \in 1..Len(target.path.comps) : IsNormal(target.path.comps[i])

\* C15 witness: the entry named "/../a" has been extracted, to a file.
C15_Witness_Traversal ==
    /\ entry = <<"/", ".", ".", "/", "a">>
    /\ target.kind = "file"
    /\ target.path = [root |-> TRUE, comps |-> << <<"d">>, <<"a">> >>]

\* C16: in a refresh nothing is fetched before the marker is written; the
\* marker is written into the recreated, still empty folder; and every
\* download is issued with the folder present and the marker in it.
C16_MarkerBeforeFirstFetch ==
    [][ /\ pc' \in {"recreate", "write_marker"} => fetched' = {}
        /\ (pc = "write_marker" /\ pc' = "dl_metadata") =>
              bundle' = [Recreated(bundle) EXCEPT !.marker = ToRfc3339(now)]
        /\ fetched' \ fetched # {} =>
              (should_download /\ bundle.exists /\ ParseOk(bundle.marker)) ]_vars

\* C16 witness: a refresh has written the marker and fetched its first
\* resource, the metadata.
C16_Witness_FirstFetch ==
    /\ pc = "dl_checker"
    /\ fetched = {"metadata.yml"}
    /\ bundle.marker = ToRfc3339(now)
    /\ Exists(bundle.files["metadata.yml"])

\* The files the subprocess is launched on, for a problem of the given type.
Needed(ty) ==
    {"metadata.yml", "checker.cpp", "testcases"}
       \cup (IF ty = "interactive" THEN {"interactor.cpp"} ELSE {})

\* The folder holds a marker that parses, and lacks a needed file or holds it
\* cut short: what a refresh leaves that fails after it wrote the marker.
MarkedButIncomplete ==
    /\ bundle.exists
    /\ ParseOk(bundle.marker)
    /\ \E f \in Needed(problem.problem_type) : ~bundle.files[f].whole

C18_ReportedVerdictIsOfThisRun ==
    /\ \A id \in SubmissionIds : \A i \in 1..Len(reported[id]) :
          reported[id][i].verdict.by = reported[id][i].run
    /\ pc = "report" => verdict.by = run

\* C19: while the subprocess runs, the file at the source path holds, whole,
\* the source code of the submission of this run; and a write of the source
\* file that fails ends the run.
C19_SourceIsOfThisRun ==
    [][ /\ child' = "running" =>
              temp'.source = [id |-> submission'.source_code, whole |-> TRUE]
        /\ (pc = "write_source" /\ pc' # pc
              /\ temp'.source # [id |-> submission.source_code, whole |-> TRUE])
             => pc' = "crashed" ]_vars

\* C20: a delivery is acknowledged only by the step that follows the return of
\* process_submission with Ok: the final verdict of this run has been sent for
\* it, and no step of the run panicked or returned an Err; and a delivery whose
\* run has ended in a failure, or is still going on, is not acknowledged.
C20_AckOnlyAfterSuccess ==
    [][ /\ acked' # acked =>
              /\ pc = "ack"
              /\ acked' = acked \cup {delivery}
              /\ \E i \in 1..Len(reported[delivery]) : reported[delivery][i].run = run
              /\ failures \cap {"panic", "err"} = {}
        /\ delivery' # 0 => delivery' \notin acked' ]_vars

\* C20 witness: both deliveries were acknowledged, each after its verdict was
\* reported once.
C20_Witness_BothAcked ==
    /\ acked = {1, 2}
    /\ Len(reported[1]) = 1
    /\ Len(reported[2]) = 1
    /\ pc = "idle"

\* The folder is the work of a refresh that completed: marker and every needed
\* file are there, whole, written by one run, and that run went on to report
\* its verdict.
RefreshCompleted ==
    /\ bundle.exists
    /\ ParseOk(bundle.marker)
    /\ \A f \in Needed(problem.problem_type) : bundle.files[f].whole
    /\ \E id \in SubmissionIds : \E i \in 1..Len(reported[id]) :
          \A f \in Needed(problem.problem_type) : bundle.files[f].by = reported[id][i].run

\* C21: a run that finds the folder left by a completed refresh, the server's
\* last_update being the one that refresh was made for, judges it not stale and
\* fetches nothing, whatever the local clock showed when the marker was written.
C21_CompletedRefreshIsFresh ==
    [][ (pc = "check_stale" /\ pc' # pc /\ RefreshCompleted
           /\ marker_for = problem.last_update) =>
          (pc' = "spawn" /\ ~should_download' /\ fetched' = {} /\ bundle' = bundle) ]_vars

\* C22: a refresh leaves base_url and refresh_token as they were and sets
\* expiry to the exp claim of the new access token; so the session never holds
\* the refresh token of a refresh response, and every refresh presents the one
\* obtained at login.
C22_RefreshChangesOnlyTokenAndExpiry ==
    [][ /\ (session' # session /\ session'.access_token.iss = "refresh") =>
              /\ session'.base_url = session.base_url
              /\ session'.refresh_token = session.refresh_token
              /\ session'.expiry = session'.access_token.exp
        /\ session'.refresh_token \in {"", LoginResponse(now, 0).refresh_token}
        /\ (tokRet'.kind # "none" /\ tokRet'.posts = 1) =>
              tokRet'.presented = LoginResponse(now, 0).refresh_token ]_vars

\* C22 witness: the session holds an access token issued by a refresh, whose
\* response carried a new refresh token, and a further refresh has presented
\* the refresh token of the login.
C22_Witness_RefreshAfterRefresh ==
    /\ tokRet.kind = "ok"
    /\ tokRet.posts = 1
    /\ tokRet.priorIss = "refresh"
    /\ tokRet.presented = "rt_login"
    /\ session.refresh_token = "rt_login"
    /\ RefreshResponse(now, 0).refresh_token # session.refresh_token

====
